---- MODULE Spec2Model ----
(***************************************************************************)
(* Model of supernotelib/parser.py: the container parser of Supernote     *)
(* files (parse_metadata, SupernoteParser, SupernoteXParser) and the      *)
(* notebook loader (load_notebook).                                        *)
(*                                                                         *)
(* A file is a sequence of bytes (integers 0..255).  Text is the sequence *)
(* of the code points of its characters; every text of the model is ASCII *)
(* so bytes.decode() maps a byte to the code point of the same number and *)
(* fails on a byte >= 128: the only such bytes in the model's files are   *)
(* 255 and low bytes of length and address fields, each followed by a     *)
(* byte < 128, so none is part of a well-formed UTF-8 sequence.           *)
(* File positions are 0-based as in Python, sequence indices 1-based.     *)
(***************************************************************************)
EXTENDS Integers, Sequences, FiniteSets, TLC

VARIABLES
    file,        \* the bytes of the file named file_name
    pc,          \* position of the running call
    variant,     \* parser of the running attempt: "base", "x" or "none"
    handles,     \* open file objects: handle id -> file position
    cur,         \* handle of the running `with` block, 0 when none
    nextHandle,  \* number of handles opened so far
    signature,   \* signature text read by the running attempt
    header,      \* header parameters of the running attempt
    footer,      \* footer parameters of the running attempt
    pageAddrs,   \* page_addresses of the running attempt
    pages,       \* page blocks parsed so far / metadata.pages
    err,         \* exception that left the call, "none" when none
    attempts,    \* parsers tried so far, in order
    decoded,     \* _parse_metadata_block calls made so far: <<variant, what>>
    note,        \* Notebook pages: content and number of set_content calls
    setLog,      \* page indices in the order set_content was called
    pageNo,      \* loop variable i of load_notebook
    text,        \* argument of _extract_parameters (SpecExtract)
    params       \* result of _extract_parameters (SpecExtract)

vars == <<file, pc, variant, handles, cur, nextHandle, signature, header, footer,
          pageAddrs, pages, err, attempts, decoded, note, setLog, pageNo, text, params>>

\* ------------------------------------------------------------------ bounds

\* Largest number of pages a generated container describes.
MaxPages == 2
\* Largest number of pieces a generated metadata text is made of.
MaxPieces == 3

\* --------------------------------------------------------------- constants

SN_SIGNATURE_Base == <<83, 78, 95, 70, 73, 76, 69, 95, 65, 83, 65, 95,
                       50, 48, 49, 57, 48, 53, 50, 57>>
SN_SIGNATURE_X == <<110, 111, 116, 101, 83, 78, 95, 70, 73, 76, 69, 95,
                    86, 69, 82, 95, 50, 48, 50, 48, 48, 48, 48, 49>>
SN_SIGNATURE(v) == IF v = "base" THEN SN_SIGNATURE_Base ELSE SN_SIGNATURE_X

K_MAINLAYER == <<77, 65, 73, 78, 76, 65, 89, 69, 82>>
K_LAYER1 == <<76, 65, 89, 69, 82, 49>>
K_LAYER2 == <<76, 65, 89, 69, 82, 50>>
K_LAYER3 == <<76, 65, 89, 69, 82, 51>>
K_BGLAYER == <<66, 71, 76, 65, 89, 69, 82>>
LAYER_KEYS == <<K_MAINLAYER, K_LAYER1, K_LAYER2, K_LAYER3, K_BGLAYER>>

K_PAGE == <<80, 65, 71, 69>>
K_DATA == <<68, 65, 84, 65>>
K_LAYERBITMAP == <<76, 65, 89, 69, 82, 66, 73, 84, 77, 65, 80>>

\* fileformat.ADDRESS_SIZE and fileformat.LENGTH_FIELD_SIZE
ADDRESS_SIZE == 4
LENGTH_FIELD_SIZE == 4

\* the characters '<', '>' and ':' of the pattern r'<([^:<>]+):([^:<>]*)>'
CH_LT == 60
CH_GT == 62
CH_COLON == 58
Special == {CH_LT, CH_GT, CH_COLON}

\* ----------------------------------------------------------------- helpers

Min(a, b) == IF a < b THEN a ELSE b
SetMin(S) == CHOOSE x \in S : \A y \in S : x <= y
Range(s) == {s[i] : i \in 1..Len(s)}
Remove(s, i) == SubSeq(s, 1, i - 1) \o SubSeq(s, i + 1, Len(s))

\* fobj.read(n) at position pos: the bytes there are, at most n of them.
ReadAt(f, pos, n) ==
    IF pos >= Len(f) THEN <<>> ELSE SubSeq(f, pos + 1, pos + Min(n, Len(f) - pos))

\* int.from_bytes(b, 'little').  The model checker's integers end at 2^31 - 1:
\* a larger value is held as 2^31 - 1.  The value is only ever a seek position
\* or a read length, and every file of the model is far shorter than either.
RECURSIVE SumLE(_)
SumLE(b) == IF b = <<>> THEN 0 ELSE b[1] + 256 * SumLE(Tail(b))
FromBytesLE(b) == IF Len(b) = 4 /\ b[4] >= 128 THEN 2147483647 ELSE SumLE(b)

\* bytes.decode(): UnicodeDecodeError on a byte that is not text
DecodeOk(b) == \A i \in 1..Len(b) : b[i] < 128

\* int(s) of a string: ValueError unless s is a non-empty run of digits
\* (the model's texts hold no sign, blank or underscore)
IsDigit(c) == c >= 48 /\ c <= 57
IntOk(s) == s # <<>> /\ \A i \in 1..Len(s) : IsDigit(s[i])
RECURSIVE IntVal(_)
IntVal(s) == IF s = <<>> THEN 0
             ELSE 10 * IntVal(SubSeq(s, 1, Len(s) - 1)) + (s[Len(s)] - 48)

\* --------------------------------------------------- _extract_parameters

\* End of the maximal run of [^:<>] that starts at index i.
RunEnd(t, i) ==
    LET stop == {j \in i..Len(t) : t[j] \in Special}
    IN  IF stop = {} THEN Len(t) + 1 ELSE SetMin(stop)

\* re.match of the pattern at index i: the match, or ok = FALSE.
MatchAt(t, i) ==
    LET ke == RunEnd(t, i + 1)
        ve == RunEnd(t, ke + 1)
    IN  IF t[i] # CH_LT \/ ke = i + 1 \/ ke > Len(t) THEN [ok |-> FALSE]
        ELSE IF t[ke] # CH_COLON \/ ve > Len(t) THEN [ok |-> FALSE]
        ELSE IF t[ve] # CH_GT THEN [ok |-> FALSE]
        ELSE [ok |-> TRUE, key |-> SubSeq(t, i + 1, ke - 1),
              value |-> SubSeq(t, ke + 1, ve - 1), end |-> ve + 1]

\* re.finditer(pattern, metadata): the non-overlapping matches, left to right.
RECURSIVE FindIter(_, _)
FindIter(t, i) ==
    IF i > Len(t) THEN <<>>
    ELSE LET m == MatchAt(t, i)
         IN  IF m.ok THEN <<[key |-> m.key, value |-> m.value]>> \o FindIter(t, m.end)
             ELSE FindIter(t, i + 1)

\* A dict is the sequence of its items in insertion order; a value is a str
\* (isList = FALSE, vals = <<value>>) or a list of str (isList = TRUE).
Scalar(k, v) == [key |-> k, isList |-> FALSE, vals |-> <<v>>]
DictIndex(d, k) ==
    LET s == {i \in 1..Len(d) : d[i].key = k}
    IN  IF s = {} THEN 0 ELSE CHOOSE i \in s : TRUE
HasKey(d, k) == DictIndex(d, k) # 0
Get(d, k) == d[DictIndex(d, k)]

\* bool(params.get(key)) of a present key: '' is false, a list here is never empty
Truthy(e) == e.isList \/ e.vals[1] # <<>>

\* One turn of the loop of _extract_parameters.  params.pop(key) followed by
\* params[key] = [...] moves the key to the end of the dict; params[key] = value
\* of a present key keeps its place.
FoldStep(d, m) ==
    LET i == DictIndex(d, m.key)
    IN  IF i # 0 /\ Truthy(d[i])
        THEN IF ~d[i].isList
             THEN Append(Remove(d, i),
                         [key |-> m.key, isList |-> TRUE,
                          vals |-> <<d[i].vals[1], m.value>>])
             ELSE [d EXCEPT ![i].vals = Append(@, m.value)]
        ELSE IF i # 0 THEN [d EXCEPT ![i] = Scalar(m.key, m.value)]
        ELSE Append(d, Scalar(m.key, m.value))

RECURSIVE Fold(_, _)
Fold(d, ms) == IF ms = <<>> THEN d ELSE Fold(FoldStep(d, Head(ms)), Tail(ms))

extract_parameters(metadata) == Fold(<<>>, FindIter(metadata, 1))

\* ------------------------------------------------- _parse_metadata_block

\* Mutant: an undecodable block is reported as an unsupported format, as an
\* undecodable signature is.
parse_metadata_block_Unsupported(f, pos, address) ==
    IF address = 0 THEN [err |-> "none", val |-> <<>>, pos |-> pos]
    ELSE LET lengthField == ReadAt(f, address, LENGTH_FIELD_SIZE)
             start == address + Len(lengthField)
             contents == ReadAt(f, start, FromBytesLE(lengthField))
         IN  IF ~DecodeOk(contents)
             THEN [err |-> "UnsupportedFileFormat", val |-> <<>>,
                   pos |-> start + Len(contents)]
             ELSE [err |-> "none", val |-> extract_parameters(contents),
                   pos |-> start + Len(contents)]

\* _parse_metadata_block(fobj, address), fobj at position pos.  seek() accepts
\* any address >= 0 and read() returns the bytes there are, without an error.
\* The result carries the exception (err), the dict (val) and the file
\* position afterwards (pos).
parse_metadata_block(f, pos, address) ==
    IF address = 0 THEN [err |-> "none", val |-> <<>>, pos |-> pos]
    ELSE LET lengthField == ReadAt(f, address, LENGTH_FIELD_SIZE)
             block_length == FromBytesLE(lengthField)
             start == address + Len(lengthField)
             contents == ReadAt(f, start, block_length)
             end == start + Len(contents)
         IN  IF ~DecodeOk(contents)
             THEN [err |-> "UnicodeDecodeError", val |-> <<>>, pos |-> end]
             ELSE [err |-> "none", val |-> extract_parameters(contents), pos |-> end]

\* list(map(lambda x: int(x), items)) over dict values: TypeError on a list
\* value, ValueError on a string that is no number; the first failure wins.
RECURSIVE IntOfEntries(_)
IntOfEntries(es) ==
    IF es = <<>> THEN [err |-> "none", val |-> <<>>]
    ELSE LET e == Head(es)
             rest == IntOfEntries(Tail(es))
         IN  IF e.isList THEN [err |-> "TypeError", val |-> <<>>]
             ELSE IF ~IntOk(e.vals[1]) THEN [err |-> "ValueError", val |-> <<>>]
             ELSE IF rest.err # "none" THEN rest
             ELSE [err |-> "none", val |-> <<IntVal(e.vals[1])>> \o rest.val]

\* SupernoteParser._get_page_addresses
get_page_addresses_Base(foot) ==
    IF ~HasKey(foot, K_PAGE) THEN [err |-> "TypeError", val |-> <<>>]  \* int(None)
    ELSE LET e == Get(foot, K_PAGE)
         IN  IntOfEntries([j \in 1..Len(e.vals) |-> Scalar(K_PAGE, e.vals[j])])

StartsWith(s, p) == Len(s) >= Len(p) /\ SubSeq(s, 1, Len(p)) = p
IsPageEntry(e) == StartsWith(e.key, K_PAGE)
IsLayerEntry(e) == e.key \in Range(LAYER_KEYS)

\* Mutant: only the key PAGE itself is a page key, as in the Base parser.
get_page_addresses_X_ExactKey(foot) ==
    IntOfEntries(SelectSeq(foot, LAMBDA e : e.key = K_PAGE))

\* SupernoteXParser._get_page_addresses
get_page_addresses_X(foot) == IntOfEntries(SelectSeq(foot, IsPageEntry))

get_page_addresses(v, foot) ==
    IF v = "base" THEN get_page_addresses_Base(foot) ELSE get_page_addresses_X(foot)

\* SupernoteXParser._get_layer_addresses: the keys of page_info, in the
\* order the dict holds them, that are layer keys.
get_layer_addresses(page_info) == IntOfEntries(SelectSeq(page_info, IsLayerEntry))

\* list(map(lambda addr: self._parse_layer_block(fobj, addr), layer_addresses))
RECURSIVE parse_layer_blocks(_, _, _)
parse_layer_blocks(f, pos, addrs) ==
    IF addrs = <<>> THEN [err |-> "none", val |-> <<>>, pos |-> pos]
    ELSE LET b == parse_metadata_block(f, pos, Head(addrs))
             rest == parse_layer_blocks(f, b.pos, Tail(addrs))
         IN  IF b.err # "none" THEN [err |-> b.err, val |-> <<>>, pos |-> b.pos]
             ELSE IF rest.err # "none" THEN rest
             ELSE [err |-> "none", val |-> <<b.val>> \o rest.val, pos |-> rest.pos]

\* A page block: its parameters and, under fileformat.KEY_LAYERS, its layers.
Page(ps, has, ls) == [params |-> ps, hasLayers |-> has, layers |-> ls]

\* SupernoteParser._parse_page_block
parse_page_block_Base(f, pos, address) ==
    LET b == parse_metadata_block(f, pos, address)
    IN  [err |-> b.err, val |-> Page(b.val, FALSE, <<>>), pos |-> b.pos]

\* SupernoteXParser._parse_page_block
parse_page_block_X(f, pos, address) ==
    LET b == parse_metadata_block(f, pos, address)
        layer_addresses == get_layer_addresses(b.val)
        layers == parse_layer_blocks(f, b.pos, layer_addresses.val)
    IN  IF b.err # "none" THEN [err |-> b.err, val |-> Page(<<>>, FALSE, <<>>), pos |-> b.pos]
        ELSE IF layer_addresses.err # "none"
        THEN [err |-> layer_addresses.err, val |-> Page(<<>>, FALSE, <<>>), pos |-> b.pos]
        ELSE IF layers.err # "none"
        THEN [err |-> layers.err, val |-> Page(<<>>, FALSE, <<>>), pos |-> layers.pos]
        ELSE [err |-> "none", val |-> Page(b.val, TRUE, layers.val), pos |-> layers.pos]

parse_page_block(v, f, pos, address) ==
    IF v = "base" THEN parse_page_block_Base(f, pos, address)
    ELSE parse_page_block_X(f, pos, address)

\* ------------------------------------------------------ _get_bitmap_address

\* SupernoteMetadata.is_layer_supported: the page holds a non-empty layer list
is_layer_supported(ps, page_number) ==
    ps[page_number + 1].hasLayers /\ ps[page_number + 1].layers # <<>>

\* d[key] followed by int(): KeyError, TypeError or ValueError
IntOfKey(d, k) ==
    IF ~HasKey(d, k) THEN [err |-> "KeyError", val |-> 0]
    ELSE LET r == IntOfEntries(<<Get(d, k)>>)
         IN  IF r.err # "none" THEN [err |-> r.err, val |-> 0]
             ELSE [err |-> "none", val |-> r.val[1]]

get_bitmap_address(ps, page_number) ==
    IF is_layer_supported(ps, page_number)
    THEN IntOfKey(ps[page_number + 1].layers[1], K_LAYERBITMAP)
    ELSE IntOfKey(ps[page_number + 1].params, K_DATA)

\* ------------------------------------------------------- files of the model

Tok(k, v) == <<CH_LT>> \o k \o <<CH_COLON>> \o v \o <<CH_GT>>

RECURSIVE Dec(_)
Dec(n) == IF n < 10 THEN <<48 + n>> ELSE Dec(n \div 10) \o <<48 + (n % 10)>>

LE4(n) == <<n % 256, (n \div 256) % 256, (n \div 65536) % 256, (n \div 16777216) % 256>>

\* A block: the 4-byte little-endian length, then the bytes.
Block(b) == LE4(Len(b)) \o b

\* A bitmap payload; the byte 255 makes it no text.
Blob(tag) == <<tag, 7, 255>>

\* An address past the end of every file of the model.
FarAddress == 9000

HeaderText == Tok(<<65>>, <<49>>)

\* Base pages.  "zero": DATA is 0; "blob": DATA is the address of a bitmap
\* block; "empty": of a bitmap block of length 0; "nodata": no DATA key;
\* "far": DATA points past the end of the file.
BaseKinds == {"zero", "blob", "empty", "nodata", "far"}

BasePage(bytes, kind, tag) ==
    LET bitmap == IF kind = "blob" THEN Block(Blob(tag))
                  ELSE IF kind = "empty" THEN Block(<<>>) ELSE <<>>
        data == IF kind = "zero" THEN Tok(K_DATA, Dec(0))
                ELSE IF kind = "far" THEN Tok(K_DATA, Dec(FarAddress))
                ELSE IF kind = "nodata" THEN Tok(<<66>>, <<50>>)
                ELSE Tok(K_DATA, Dec(Len(bytes)))
    IN  [bytes |-> bytes \o bitmap \o Block(data), addr |-> Len(bytes) + Len(bitmap)]

\* X-series pages, by the layer keys of the page block in the order of its
\* text.  "M0": the main layer's LAYERBITMAP is 0; "none": no layer key.
XKinds == {"none", "M", "M_L1", "L1_M", "BG", "M0"}
XLayerKeys(kind) ==
    IF kind = "M" \/ kind = "M0" THEN <<K_MAINLAYER>>
    ELSE IF kind = "M_L1" THEN <<K_MAINLAYER, K_LAYER1>>
    ELSE IF kind = "L1_M" THEN <<K_LAYER1, K_MAINLAYER>>
    ELSE IF kind = "BG" THEN <<K_BGLAYER>>
    ELSE <<>>

\* The bitmap and layer blocks of the layer keys ks, and the page text naming them.
RECURSIVE XLayers(_, _, _, _)
XLayers(bytes, ks, tag, zero) ==
    IF ks = <<>> THEN [bytes |-> bytes, toks |-> <<>>]
    ELSE LET withBitmap == bytes \o Block(Blob(tag + Len(ks)))
             layer == Tok(K_LAYERBITMAP, Dec(IF zero THEN 0 ELSE Len(bytes)))
             rest == XLayers(withBitmap \o Block(layer), Tail(ks), tag, zero)
         IN  [bytes |-> rest.bytes,
              toks |-> Tok(Head(ks), Dec(Len(withBitmap))) \o rest.toks]

XPage(bytes, kind, tag) ==
    LET ls == XLayers(bytes, XLayerKeys(kind), 10 * tag, kind = "M0")
        page == IF kind = "none" THEN Tok(<<66>>, <<50>>) ELSE ls.toks
    IN  [bytes |-> ls.bytes \o Block(page), addr |-> Len(ls.bytes)]

\* The page blocks of kinds, written after bytes: the bytes and the page addresses.
RECURSIVE BuildPages(_, _, _, _)
BuildPages(v, bytes, kinds, n) ==
    IF n > Len(kinds) THEN [bytes |-> bytes, addrs |-> <<>>]
    ELSE LET p == IF v = "base" THEN BasePage(bytes, kinds[n], n)
                  ELSE XPage(bytes, kinds[n], n)
             rest == BuildPages(v, p.bytes, kinds, n + 1)
         IN  [bytes |-> rest.bytes, addrs |-> <<p.addr>> \o rest.addrs]

\* The footer key of page n: PAGE for Base, PAGE<n> for X-series.
PageKey(v, n) == IF v = "base" THEN K_PAGE ELSE K_PAGE \o Dec(n)

RECURSIVE PageToks(_, _, _)
PageToks(v, addrs, n) ==
    IF n > Len(addrs) THEN <<>>
    ELSE Tok(PageKey(v, n), Dec(addrs[n])) \o PageToks(v, addrs, n + 1)

\* Footers.  "plain": one PAGE token per page; "emptyfirst": the key of the
\* first page occurs once more, with an empty value, before every other token
\* (and, for X-series, its address token comes last); "far": one more page
\* address, past the end of the file; "addr0": the footer address is 0.
FooterStyles == {"plain", "emptyfirst", "far", "addr0"}

FooterText(v, addrs, style) ==
    IF style = "emptyfirst" /\ v = "base"
    THEN Tok(K_PAGE, <<>>) \o PageToks(v, addrs, 1)
    ELSE IF style = "emptyfirst"
    THEN Tok(PageKey(v, 1), <<>>) \o PageToks(v, addrs, 2)
         \o (IF addrs = <<>> THEN <<>> ELSE Tok(PageKey(v, 1), Dec(addrs[1])))
    ELSE IF style = "far"
    THEN PageToks(v, addrs, 1) \o Tok(PageKey(v, Len(addrs) + 1), Dec(FarAddress))
    ELSE PageToks(v, addrs, 1)

\* A container: signature, header block, page (bitmap, layer) blocks, footer
\* block, footer address.
Build(v, kinds, style) ==
    LET body == BuildPages(v, SN_SIGNATURE(v) \o Block(HeaderText), kinds, 1)
    IN  body.bytes \o Block(FooterText(v, body.addrs, style))
        \o LE4(IF style = "addr0" THEN 0 ELSE Len(body.bytes))

KindSeqs(K) == UNION {[1..n -> K] : n \in 0..MaxPages}

Containers ==
    {Build("base", ks, st) : ks \in KindSeqs(BaseKinds), st \in FooterStyles}
    \cup {Build("x", ks, st) : ks \in KindSeqs(XKinds), st \in FooterStyles}

\* Damaged files: a container cut short, or with one byte replaced by 255.
Samples == {Build("base", <<"blob">>, "plain"), Build("x", <<"M_L1">>, "plain")}
Truncated == UNION {{SubSeq(f, 1, n) : n \in 0..(Len(f) - 1)} : f \in Samples}
Corrupted == UNION {{[f EXCEPT ![n] = 255] : n \in 1..Len(f)} : f \in Samples}

Files == Containers \cup Truncated \cup Corrupted

\* Metadata texts: up to MaxPieces pieces, tokens and stray characters.
Pieces == {Tok(<<65>>, <<49>>), Tok(<<65>>, <<>>), Tok(<<66>>, <<50>>),
           Tok(<<65>>, <<51>>), <<CH_LT>>, <<CH_COLON>>, <<65>>}
RECURSIVE TextsOf(_)
TextsOf(n) == IF n = 0 THEN {<<>>}
              ELSE LET prev == TextsOf(n - 1)
                   IN  prev \cup {t \o p : t \in prev, p \in Pieces}
Texts == TextsOf(MaxPieces)

\* ------------------------------------------------------------ file objects

\* open(file_name, 'rb'): a new file object at position 0
OpenFile(hs, id) == (id :> 0) @@ hs

\* Mutant: the file object is left open.
CloseFile_Leak(hs, id) == hs

\* leaving the `with` block, by return or by exception: the file is closed
CloseFile(hs, id) == [k \in (DOMAIN hs) \ {id} |-> hs[k]]

\* ------------------------------------------------------------------- Init

NoNote == <<>>

Init ==
    /\ file \in Files
    /\ pc = "open"
    /\ variant = "base"
    /\ handles = <<>>
    /\ cur = 0
    /\ nextHandle = 0
    /\ signature = <<>>
    /\ header = <<>>
    /\ footer = <<>>
    /\ pageAddrs = <<>>
    /\ pages = <<>>
    /\ err = "none"
    /\ attempts = <<>>
    /\ decoded = <<>>
    /\ note = NoNote
    /\ setLog = <<>>
    /\ pageNo = 0
    /\ text = <<>>
    /\ params = <<>>

\* ---------------------------------------------------------------- actions

\* An exception leaves load_notebook's `with` block and the call: the file is
\* closed, nothing catches the exception.
Raise(e) ==
    /\ handles' = CloseFile(handles, cur)
    /\ cur' = 0
    /\ err' = e
    /\ pc' = "raised"
    /\ UNCHANGED variant

\* An exception leaves parse(): its `with` block closes the file.
\* parse_metadata catches UnsupportedFileFormat alone: after the Base parser
\* it tries the X-series parser, after the X-series parser it raises
\* UnsupportedFileFormat itself (line 56).  Any other exception propagates.
Fail(e) ==
    /\ handles' = CloseFile(handles, cur)
    /\ cur' = 0
    /\ IF e = "UnsupportedFileFormat" /\ variant = "base"
       THEN variant' = "x" /\ pc' = "open" /\ UNCHANGED err
       ELSE err' = e /\ pc' = "raised" /\ UNCHANGED variant

\* parse_metadata, lines 37-39 and 46-48: parser.parse(file_name) opens the file.
OpenForParse ==
    /\ pc = "open"
    /\ nextHandle' = nextHandle + 1
    /\ handles' = OpenFile(handles, nextHandle + 1)
    /\ cur' = nextHandle + 1
    /\ attempts' = Append(attempts, variant)
    /\ signature' = <<>>
    /\ header' = <<>>
    /\ footer' = <<>>
    /\ pageAddrs' = <<>>
    /\ pages' = <<>>
    /\ pc' = "signature"
    /\ UNCHANGED <<file, variant, err, decoded, note, setLog, pageNo, text, params>>

\* Mutant: the UnicodeDecodeError of the signature is not caught.
read_file_signature_NoExcept(v, f, pos) ==
    LET raw == ReadAt(f, pos, Len(SN_SIGNATURE(v)))
    IN  IF ~DecodeOk(raw)
        THEN [err |-> "UnicodeDecodeError", val |-> <<>>, pos |-> pos + Len(raw)]
        ELSE [err |-> "none", val |-> raw, pos |-> pos + Len(raw)]

\* _read_file_signature(fobj), fobj at position pos
read_file_signature(v, f, pos) ==
    LET raw == ReadAt(f, pos, Len(SN_SIGNATURE(v)))
    IN  IF ~DecodeOk(raw)
        THEN [err |-> "UnsupportedFileFormat", val |-> <<>>, pos |-> pos + Len(raw)]
        ELSE [err |-> "none", val |-> raw, pos |-> pos + Len(raw)]

\* parse, lines 126-128
ReadSignature ==
    /\ pc = "signature"
    /\ LET sig == read_file_signature(variant, file, handles[cur])
       IN  IF sig.err # "none" THEN Fail(sig.err) /\ UNCHANGED signature
           ELSE IF sig.val # SN_SIGNATURE(variant)
           THEN Fail("UnsupportedFileFormat") /\ UNCHANGED signature
           ELSE /\ signature' = sig.val
                /\ handles' = [handles EXCEPT ![cur] = sig.pos]
                /\ pc' = "header"
                /\ UNCHANGED <<variant, cur, err>>
    /\ UNCHANGED <<file, nextHandle, header, footer, pageAddrs, pages, attempts,
                   decoded, note, setLog, pageNo, text, params>>

\* parse, lines 130-131
ParseHeader ==
    /\ pc = "header"
    /\ decoded' = Append(decoded, <<variant, "header">>)
    /\ LET header_address == Len(SN_SIGNATURE(variant))
           b == parse_metadata_block(file, handles[cur], header_address)
       IN  IF b.err # "none"
           THEN Fail(b.err) /\ UNCHANGED header
           ELSE /\ header' = b.val
                /\ handles' = [handles EXCEPT ![cur] = b.pos]
                /\ pc' = "footer"
                /\ UNCHANGED <<variant, cur, err>>
    /\ UNCHANGED <<file, nextHandle, signature, footer, pageAddrs, pages,
                   attempts, note, setLog, pageNo, text, params>>

\* parse, lines 133-135: the footer address is the last 4 bytes of the file.
\* seek() to a negative position raises OSError.
ParseFooter ==
    /\ pc = "footer"
    /\ IF Len(file) < ADDRESS_SIZE
       THEN Fail("OSError") /\ UNCHANGED <<footer, decoded>>
       ELSE LET at == Len(file) - ADDRESS_SIZE
                footer_address == FromBytesLE(ReadAt(file, at, ADDRESS_SIZE))
                b == parse_metadata_block(file, Len(file), footer_address)
            IN  /\ decoded' = Append(decoded, <<variant, "footer">>)
                /\ IF b.err # "none"
                   THEN Fail(b.err) /\ UNCHANGED footer
                   ELSE /\ footer' = b.val
                        /\ handles' = [handles EXCEPT ![cur] = b.pos]
                        /\ pc' = "addresses"
                        /\ UNCHANGED <<variant, cur, err>>
    /\ UNCHANGED <<file, nextHandle, signature, header, pageAddrs, pages,
                   attempts, note, setLog, pageNo, text, params>>

\* parse, line 137
GetPageAddresses ==
    /\ pc = "addresses"
    /\ LET a == get_page_addresses(variant, footer)
       IN  IF a.err # "none"
           THEN Fail(a.err) /\ UNCHANGED pageAddrs
           ELSE /\ pageAddrs' = a.val
                /\ pc' = "pages"
                /\ UNCHANGED <<variant, handles, cur, err>>
    /\ UNCHANGED <<file, nextHandle, signature, header, footer, pages,
                   attempts, decoded, note, setLog, pageNo, text, params>>

\* parse, line 138: one turn of the map over page_addresses
ParsePage ==
    /\ pc = "pages"
    /\ Len(pages) < Len(pageAddrs)
    /\ decoded' = Append(decoded, <<variant, "page">>)
    /\ LET p == parse_page_block(variant, file, handles[cur], pageAddrs[Len(pages) + 1])
       IN  IF p.err # "none"
           THEN Fail(p.err) /\ UNCHANGED pages
           ELSE /\ pages' = Append(pages, p.val)
                /\ handles' = [handles EXCEPT ![cur] = p.pos]
                /\ UNCHANGED <<variant, pc, cur, err>>
    /\ UNCHANGED <<file, nextHandle, signature, header, footer, pageAddrs,
                   attempts, note, setLog, pageNo, text, params>>

\* parse, lines 139-144, and parse_metadata's return: the `with` block ends,
\* the metadata (signature, header, footer, pages) is returned.
ReturnMetadata ==
    /\ pc = "pages"
    /\ Len(pages) = Len(pageAddrs)
    /\ handles' = CloseFile(handles, cur)
    /\ cur' = 0
    /\ pc' = "parsed"
    /\ UNCHANGED <<file, variant, nextHandle, signature, header, footer, pageAddrs,
                   pages, err, attempts, decoded, note, setLog, pageNo, text, params>>

\* fileformat.Notebook(metadata): one Page per page of the metadata, without content
Notebook(ps) == [n \in 1..Len(ps) |-> [isNone |-> TRUE, bytes |-> <<>>, sets |-> 0]]

\* Page.set_content(content)
set_content(nb, n, isNone, bytes) ==
    [nb EXCEPT ![n + 1] = [isNone |-> isNone, bytes |-> bytes, sets |-> @.sets + 1]]

\* load_notebook, lines 76-79
OpenForLoad ==
    /\ pc = "parsed"
    /\ note' = Notebook(pages)
    /\ nextHandle' = nextHandle + 1
    /\ handles' = OpenFile(handles, nextHandle + 1)
    /\ cur' = nextHandle + 1
    /\ pageNo' = 0
    /\ pc' = "load"
    /\ UNCHANGED <<file, variant, signature, header, footer, pageAddrs, pages, err,
                   attempts, decoded, setLog, text, params>>

\* Mutant: a block of length 0 leaves the content None (`if block_length:`).
read_content_EmptyIsNone(f, pos, address) ==
    LET lengthField == ReadAt(f, address, LENGTH_FIELD_SIZE)
        content == ReadAt(f, address + Len(lengthField), FromBytesLE(lengthField))
    IN  IF address # 0 /\ content # <<>>
        THEN [isNone |-> FALSE, bytes |-> content,
              pos |-> address + Len(lengthField) + Len(content)]
        ELSE [isNone |-> TRUE, bytes |-> <<>>, pos |-> pos]

\* load_notebook, lines 82-86: the content at address, fobj at position pos
read_content(f, pos, address) ==
    LET lengthField == ReadAt(f, address, LENGTH_FIELD_SIZE)
        block_length == FromBytesLE(lengthField)
        content == ReadAt(f, address + Len(lengthField), block_length)
    IN  IF address # 0
        THEN [isNone |-> FALSE, bytes |-> content,
              pos |-> address + Len(lengthField) + Len(content)]
        ELSE [isNone |-> TRUE, bytes |-> <<>>, pos |-> pos]

\* load_notebook, lines 80-87: one turn of the loop
LoadPage ==
    /\ pc = "load"
    /\ pageNo < Len(pages)
    /\ LET a == get_bitmap_address(pages, pageNo)
           c == read_content(file, handles[cur], a.val)
       IN  IF a.err # "none"
           THEN Raise(a.err) /\ UNCHANGED <<note, setLog, pageNo>>
           ELSE /\ note' = set_content(note, pageNo, c.isNone, c.bytes)
                /\ handles' = [handles EXCEPT ![cur] = c.pos]
                /\ setLog' = Append(setLog, pageNo)
                /\ pageNo' = pageNo + 1
                /\ UNCHANGED <<variant, pc, cur, err>>
    /\ UNCHANGED <<file, nextHandle, signature, header, footer, pageAddrs,
                   pages, attempts, decoded, text, params>>

\* load_notebook, line 88: the `with` block ends, the notebook is returned
ReturnNotebook ==
    /\ pc = "load"
    /\ pageNo = Len(pages)
    /\ handles' = CloseFile(handles, cur)
    /\ cur' = 0
    /\ pc' = "done"
    /\ UNCHANGED <<file, variant, nextHandle, signature, header, footer, pageAddrs,
                   pages, err, attempts, decoded, note, setLog, pageNo, text, params>>

Next ==
    \/ OpenForParse
    \/ ReadSignature
    \/ ParseHeader
    \/ ParseFooter
    \/ GetPageAddresses
    \/ ParsePage
    \/ ReturnMetadata
    \/ OpenForLoad
    \/ LoadPage
    \/ ReturnNotebook

\* load_notebook(file_name) on each file of the model
Spec == Init /\ [][Next]_vars

\* ------------------------------------- _extract_parameters on its own

InitExtract ==
    /\ text \in Texts
    /\ params = <<>>
    /\ pc = "extract"
    /\ file = <<>>
    /\ variant = "none"
    /\ handles = <<>>
    /\ cur = 0
    /\ nextHandle = 0
    /\ signature = <<>>
    /\ header = <<>>
    /\ footer = <<>>
    /\ pageAddrs = <<>>
    /\ pages = <<>>
    /\ err = "none"
    /\ attempts = <<>>
    /\ decoded = <<>>
    /\ note = NoNote
    /\ setLog = <<>>
    /\ pageNo = 0

Extract ==
    /\ pc = "extract"
    /\ params' = extract_parameters(text)
    /\ pc' = "extracted"
    /\ UNCHANGED <<file, variant, handles, cur, nextHandle, signature, header, footer,
                   pageAddrs, pages, err, attempts, decoded, note, setLog, pageNo, text>>

NextExtract == Extract

SpecExtract == InitExtract /\ [][NextExtract]_vars

\* ---------------------------------------------------------------- claims

\* parse_metadata has returned a metadata object
Parsed == pc \in {"parsed", "load", "done"}

LeadsWith(sig) == Len(file) >= Len(sig) /\ SubSeq(file, 1, Len(sig)) = sig

\* The length field and the bytes of the block at address a are all in f.
BlockSupplied(f, a) ==
    /\ a <= Len(f) - LENGTH_FIELD_SIZE
    /\ FromBytesLE(SubSeq(f, a + 1, a + LENGTH_FIELD_SIZE))
           <= Len(f) - a - LENGTH_FIELD_SIZE

\* The bytes of the block at address a, when they are all in f.
BlockBytes(f, a) ==
    SubSeq(f, a + LENGTH_FIELD_SIZE + 1,
           a + LENGTH_FIELD_SIZE + FromBytesLE(SubSeq(f, a + 1, a + LENGTH_FIELD_SIZE)))

\* The values matched for key k, in the order of the matches ms.
RECURSIVE MatchedValues(_, _)
MatchedValues(ms, k) ==
    IF ms = <<>> THEN <<>>
    ELSE (IF Head(ms).key = k THEN <<Head(ms).value>> ELSE <<>>)
         \o MatchedValues(Tail(ms), k)

\* C1: after _extract_parameters, every matched key is stored; each key holds
\* exactly the values matched for it, in order of occurrence, as a scalar when
\* there is one and as a list when there are two or more (whatever the first
\* value is, the empty string included).
C1_FoldRule ==
    pc = "extracted" =>
        LET ms == FindIter(text, 1)
        IN  /\ \A j \in 1..Len(ms) : HasKey(params, ms[j].key)
            /\ \A j \in 1..Len(params) :
                 /\ params[j].vals = MatchedValues(ms, params[j].key)
                 /\ params[j].isList <=> Len(params[j].vals) >= 2

\* The page addresses the footer mapping lists: for Base the values of its
\* key PAGE, for X-series the values of its keys that start with PAGE, in the
\* order the mapping holds them.
ListedValues(v, foot) ==
    IF v = "base"
    THEN (IF HasKey(foot, K_PAGE) THEN Get(foot, K_PAGE).vals ELSE <<>>)
    ELSE LET es == SelectSeq(foot, IsPageEntry)
         IN  [j \in 1..Len(es) |-> es[j].vals[1]]

PriorityLayerKeys(page_info) ==
    SelectSeq(LAYER_KEYS, LAMBDA k : HasKey(page_info, k))

\* C3: every page of a parsed X-series file holds one decoded layer block per
\* layer key present, ordered MAINLAYER, LAYER1, LAYER2, LAYER3, BGLAYER,
\* whatever the order of the keys in the page block's text.
C3_LayerOrder ==
    (Parsed /\ variant = "x") =>
        \A j \in 1..Len(pages) :
            LET ks == PriorityLayerKeys(pages[j].params)
            IN  /\ Len(pages[j].layers) = Len(ks)
                /\ \A n \in 1..Len(ks) :
                     pages[j].layers[n] =
                        parse_metadata_block(
                            file, 0, IntVal(Get(pages[j].params, ks[n]).vals[1])).val

\* The footer address the file ends with.
FooterAddress(f) == FromBytesLE(SubSeq(f, Len(f) - ADDRESS_SIZE + 1, Len(f)))

\* C4: a block read at a non-zero address is read in full or the read fails:
\* the header once it is decoded, the footer once it is decoded, every page
\* block parsed and every content set lie wholly inside the file.
C4_BlockReadsExact ==
    /\ pc \in {"footer", "addresses", "pages"} \/ Parsed =>
           BlockSupplied(file, Len(SN_SIGNATURE(variant)))
    /\ pc \in {"addresses", "pages"} \/ Parsed =>
           FooterAddress(file) = 0 \/ BlockSupplied(file, FooterAddress(file))
    /\ pc = "pages" \/ Parsed =>
           \A j \in 1..Len(pages) :
               pageAddrs[j] = 0 \/ BlockSupplied(file, pageAddrs[j])
    /\ pc \in {"load", "done"} =>
           \A j \in 1..Len(setLog) :
               note[j].isNone \/ BlockSupplied(file, get_bitmap_address(pages, j - 1).val)

\* C5: the bitmap address of a page with layer support is the LAYERBITMAP of
\* the layer at index 0, and that layer is the page's MAINLAYER block (of a
\* page that has a MAINLAYER); the bitmap address of a page without layer
\* support is its DATA.
C5_BitmapAddress ==
    Parsed =>
        \A n \in 0..(Len(pages) - 1) :
            LET page == pages[n + 1]
                a == get_bitmap_address(pages, n)
            IN  a.err = "none" =>
                    IF page.hasLayers /\ page.layers # <<>>
                    THEN /\ a.val = IntVal(Get(page.layers[1], K_LAYERBITMAP).vals[1])
                         /\ HasKey(page.params, K_MAINLAYER) =>
                              page.layers[1] =
                                parse_metadata_block(
                                    file, 0,
                                    IntVal(Get(page.params, K_MAINLAYER).vals[1])).val
                    ELSE a.val = IntVal(Get(page.params, K_DATA).vals[1])

\* The file leads with neither signature.
Unrecognized == ~LeadsWith(SN_SIGNATURE_Base) /\ ~LeadsWith(SN_SIGNATURE_X)

\* C6: on a file that leads with neither signature, parse_metadata tries the
\* Base parser, then the X-series parser, decodes no block in either, never
\* gets past a signature check, and ends by raising UnsupportedFileFormat.
C6_Unrecognized ==
    Unrecognized =>
        /\ pc \in {"open", "signature", "raised"}
        /\ decoded = <<>>
        /\ pc = "raised" => err = "UnsupportedFileFormat" /\ attempts = <<"base", "x">>
        /\ pc # "raised" => ENABLED Next

C6_Witness ==
    /\ Unrecognized
    /\ pc = "raised"
    /\ err = "UnsupportedFileFormat"
    /\ Len(file) >= Len(SN_SIGNATURE_X)
    /\ ~DecodeOk(SubSeq(file, 1, Len(SN_SIGNATURE_Base)))

\* C7: when load_notebook has returned, the content of every page has been set
\* exactly once, in ascending order of the page index; it is None exactly when
\* the page's bitmap address is 0, and otherwise the bytes that follow the
\* length field at that address (no bytes, not None, when that length is 0).
C7_NotebookLoading ==
    pc = "done" =>
        /\ Len(note) = Len(pages)
        /\ setLog = [j \in 1..Len(pages) |-> j - 1]
        /\ \A j \in 1..Len(pages) :
             LET a == get_bitmap_address(pages, j - 1).val
             IN  /\ note[j].sets = 1
                 /\ note[j].isNone <=> a = 0
                 /\ (a # 0 /\ BlockSupplied(file, a)) => note[j].bytes = BlockBytes(file, a)
                 /\ (a # 0 /\ BlockSupplied(file, a)
                       /\ SubSeq(file, a + 1, a + LENGTH_FIELD_SIZE) = <<0, 0, 0, 0>>)
                      => (note[j].bytes = <<>> /\ ~note[j].isNone)

C7_Witness ==
    /\ pc = "done"
    /\ Len(pages) = 2
    /\ note[1].isNone
    /\ ~note[2].isNone
    /\ note[2].bytes = Blob(2)

\* C8: a failure after a matching signature is never UnsupportedFileFormat and
\* never starts the next parser: on a file that leads with the Base signature
\* the X-series parser is never tried, and on a file that leads with either
\* signature no UnsupportedFileFormat leaves parse_metadata.
C8_NoFallThrough ==
    /\ LeadsWith(SN_SIGNATURE_Base) => attempts \in {<<>>, <<"base">>}
    /\ (LeadsWith(SN_SIGNATURE_Base) \/ LeadsWith(SN_SIGNATURE_X)) =>
           err # "UnsupportedFileFormat"
    /\ attempts = <<"base", "x">> => ~LeadsWith(SN_SIGNATURE_Base)

C8_Witness ==
    /\ LeadsWith(SN_SIGNATURE_Base)
    /\ pc = "raised"
    /\ err = "UnicodeDecodeError"
    /\ decoded # <<>>
    /\ attempts = <<"base">>

\* The file passes the signature check of v, its header and footer blocks lie
\* wholly inside the file and are text (or the footer address is 0), and its
\* footer lists no page address.
ZeroPages(v) ==
    /\ LeadsWith(SN_SIGNATURE(v))
    /\ BlockSupplied(file, Len(SN_SIGNATURE(v)))
    /\ DecodeOk(BlockBytes(file, Len(SN_SIGNATURE(v))))
    /\ \/ FooterAddress(file) = 0
       \/ /\ BlockSupplied(file, FooterAddress(file))
          /\ DecodeOk(BlockBytes(file, FooterAddress(file)))
          /\ ListedValues(v, extract_parameters(BlockBytes(file, FooterAddress(file)))) = <<>>

\* C9: a file of either variant that passes the signature check and whose
\* footer lists no page address parses, to metadata without pages.
C9_ZeroPages ==
    \A v \in {"base", "x"} :
        ZeroPages(v) => /\ pc # "raised"
                        /\ Parsed => pages = <<>>

\* C10: at most one file object is open at any time; every parser attempt
\* reads its signature at offset 0 of a file object opened for it; no file
\* object is open when an attempt starts, when parse_metadata has returned,
\* or when the call has ended, by return or by exception.
C10_HandleDiscipline ==
    /\ Cardinality(DOMAIN handles) <= 1
    /\ pc = "signature" => /\ DOMAIN handles = {cur}
                           /\ cur = nextHandle
                           /\ handles[cur] = 0
    /\ pc \in {"open", "parsed", "done", "raised"} => DOMAIN handles = {}

C10_Witness ==
    /\ pc = "done"
    /\ attempts = <<"base", "x">>
    /\ nextHandle = 3
    /\ Len(pages) > 0

====
